---- MODULE Spec2Model ----
(***************************************************************************)
(* installSynApps (epicsenv): the module/configuration data model, the     *)
(* clone engine with its dependency discovery, the recursive build, and    *)
(* the version-tag update with its invalidation.                           *)
(*                                                                         *)
(* Python values are kept as the code has them: the lifecycle flags are    *)
(* Python ints/bools (False = 0, True = 1, and STATE & 2 is 0 or 2), text  *)
(* that the code takes apart (tags, file names) is a sequence of           *)
(* one-character strings, and an exception that leaves a call is recorded  *)
(* in call.raised.                                                         *)
(***************************************************************************)
EXTENDS Integers, Sequences, FiniteSets, TLC

VARIABLES
    modules,    \* InstallConfiguration.modules of the running process (ordered dict)
    file,       \* the JSON configuration file: its MODULES object, in order
    remote,     \* the git repositories: per module, the tree a checkout of it holds
    disk,       \* the build location: per module, the directory at module_abs_path
    stack,      \* activation records of build_single_module, innermost last
    loop,       \* build_all's loop: the index of the module in turn and the failed list
    call,       \* the API call in progress, or the last one, with its outcome
    log,        \* the child processes (Popen) the current or last call started
    builtSaved  \* history: the modules that a save has written as built

vars == <<modules, file, remote, disk, stack, loop, call, log, builtSaved>>

----------------------------------------------------------------------------
(* Bounds of the model *)

\* build_single_module activations before the interpreter's recursion limit
MaxDepth == 4
\* a call that may clone starts only while every dependencies list is this short
MaxDeps == 2
\* remote tags answered by one git ls-remote
MaxTags == 3

----------------------------------------------------------------------------
(* Text *)

Digits == {"0", "1", "2", "3", "4", "5", "6", "7", "8", "9"}

IsDigit(c) == c \in Digits

DigitValue(c) ==
    CASE c = "0" -> 0 [] c = "1" -> 1 [] c = "2" -> 2 [] c = "3" -> 3
      [] c = "4" -> 4 [] c = "5" -> 5 [] c = "6" -> 6 [] c = "7" -> 7
      [] c = "8" -> 8 [] c = "9" -> 9

\* str.startswith
StartsWith(s, prefix) ==
    /\ Len(s) >= Len(prefix)
    /\ SubSeq(s, 1, Len(prefix)) = prefix

Range(s) == {s[i] : i \in DOMAIN s}

\* re.split(r"\D+", text), the pieces that are numeric, each through int():
\* the maximal runs of digits of the text, in order, as integers
RECURSIVE DigitRuns(_, _, _, _)
DigitRuns(text, i, cur, inRun) ==
    IF i > Len(text)
    THEN (IF inRun THEN <<cur>> ELSE <<>>)
    ELSE IF IsDigit(text[i])
         THEN DigitRuns(text, i + 1,
                        (IF inRun THEN cur ELSE 0) * 10 + DigitValue(text[i]), TRUE)
         ELSE (IF inRun THEN <<cur>> ELSE <<>>) \o DigitRuns(text, i + 1, 0, FALSE)

VersionNumbers(text) == DigitRuns(text, 1, 0, FALSE)

master == <<"m", "a", "s", "t", "e", "r">>
main == <<"m", "a", "i", "n">>

R3_7_1 == <<"R", "3", "-", "7", "-", "1">>
R3_7_2 == <<"R", "3", "-", "7", "-", "2">>
R3_7_1_1 == <<"R", "3", "-", "7", "-", "1", "-", "1">>
T3_8_0 == <<"3", "-", "8", "-", "0">>
Rtest == <<"R", "t", "e", "s", "t">>
R4_41 == <<"R", "4", "-", "4", "1">>
R4_42 == <<"R", "4", "-", "4", "2">>
R7_0_5 == <<"R", "7", ".", "0", ".", "5">>
R3_7_3 == <<"R", "3", "-", "7", "-", "3">>

RELEASE == <<"R", "E", "L", "E", "A", "S", "E">>
RELEASE_local == RELEASE \o <<".", "l", "o", "c", "a", "l">>
CONFIG_SITE == <<"C", "O", "N", "F", "I", "G", "_", "S", "I", "T", "E">>
CONFIG == <<"C", "O", "N", "F", "I", "G">>

----------------------------------------------------------------------------
(* Program constants *)

UPDATE_TAGS_BLACKLIST == <<"SSCAN", "CALC", "STREAM">>

NON_DEP_RELEASES ==
    <<"SUPPORT", "UTILS", "TEMPLATE_TOP", "TEMPLATE_CONFIG", "TEMPLATE_RELEASE",
      "TEMPLATE_SITE", "TEMPLATE_CONFIG_SITE">>

\* Python truth of an int or bool
Truthy(v) == v # 0

\* x & bit, for bit a power of two
BitAnd(x, bit) == ((x \div bit) % 2) * bit

----------------------------------------------------------------------------
(* The configuration document *)

\* The configuration the model runs on: ASYN is listed before EPICS_BASE.
\* URL and VERSION as utils.DEFAULT_MODULES gives them; no STATE, no DEPS yet.
FreshDocument ==
    << [name |-> "ASYN", VERSION |-> R4_41, Recursive |-> FALSE,
        hasState |-> FALSE, State |-> 0, DEPS |-> <<>>],
       [name |-> "EPICS_BASE", VERSION |-> R7_0_5, Recursive |-> TRUE,
        hasState |-> FALSE, State |-> 0, DEPS |-> <<>>],
       [name |-> "CALC", VERSION |-> R3_7_3, Recursive |-> FALSE,
        hasState |-> FALSE, State |-> 0, DEPS |-> <<>>] >>

\* CONFIG_MACROS of the document (build_options)
ConfigMacros == <<"TIRPC", "WITH_PVA">>

\* InstallModule.__init__
InstallModule(module_name, module_config) ==
    [name |-> module_name,
     version |-> module_config.VERSION,
     recursive_clone |-> module_config.Recursive,
     cloned |-> IF module_config.hasState THEN BitAnd(module_config.State, 1) ELSE 0,
     built |-> IF module_config.hasState THEN BitAnd(module_config.State, 2) ELSE 0,
     installed |-> IF module_config.hasState THEN BitAnd(module_config.State, 4) ELSE 0,
     dependencies |-> <<>>]

\* InstallModule.as_dict
as_dict(module) ==
    [name |-> module.name,
     VERSION |-> module.version,
     Recursive |-> module.recursive_clone,
     hasState |-> TRUE,
     State |-> 1 * module.cloned + 2 * module.built + 4 * module.installed,
     DEPS |-> module.dependencies]

\* InstallConfiguration.__init__(config_file_path): one InstallModule per entry
LoadModules(document) ==
    [i \in DOMAIN document |-> InstallModule(document[i].name, document[i])]

\* InstallConfiguration.save: one as_dict per module, in the dict's order
SaveModules(mods) == [i \in DOMAIN mods |-> as_dict(mods[i])]

\* self.modules keys, in order
Keys(mods) == [i \in DOMAIN mods |-> mods[i].name]

HasKey(mods, name) == \E i \in DOMAIN mods : mods[i].name = name

\* install_config.modules[name]
Index(mods, name) == CHOOSE i \in DOMAIN mods : mods[i].name = name

Module(mods, name) == mods[Index(mods, name)]

----------------------------------------------------------------------------
(* The build location *)

\* A line of a RELEASE file: whether it is a full-line comment ( *#...), whether
\* it holds "=", and the text before the first "=", stripped
Assign(key) == [hash |-> FALSE, eq |-> TRUE, key |-> key]
Commented(key) == [hash |-> TRUE, eq |-> TRUE, key |-> key]
Other == [hash |-> FALSE, eq |-> FALSE, key |-> ""]

File(name, lines) == [name |-> name, lines |-> lines]

\* No directory at module_abs_path
NoDir == [exists |-> FALSE, configure |-> <<>>]

\* A directory at module_abs_path; configure: what get_module_configure_dirs
\* finds in it, each directory named configure with its files
Dir(configure_dirs) == [exists |-> TRUE, configure |-> configure_dirs]

\* The trees of the repositories the model runs on
BaseTree ==
    << <<File(RELEASE, <<Commented("SUPPORT"), Assign("SUPPORT")>>),
         File(CONFIG, <<Other>>)>> >>

AsynTree ==
    << <<File(RELEASE, <<Assign("SUPPORT"), Commented("CALC"),
                         Assign("ASYN"), Assign("EPICS_BASE")>>),
         File(CONFIG_SITE, <<Other>>)>> >>

AsynTreeWithCalc ==
    << <<File(RELEASE, <<Assign("CALC"), Other, Assign("EPICS_BASE")>>)>> >>

CalcTree ==
    << <<File(RELEASE, <<Assign("ASYN"), Assign("EPICS_BASE")>>)>> >>

AsynTreeBaseThenCalc ==
    << <<File(RELEASE, <<Assign("EPICS_BASE"), Assign("CALC")>>)>> >>

CalcTreeLocalOnly ==
    << <<File(RELEASE_local, <<Assign("EPICS_BASE")>>)>> >>

CalcTreeWithSncseq ==
    << <<File(RELEASE, <<Assign("SNCSEQ")>>)>> >>

Repository(asyn, calc) ==
    [name \in {"ASYN", "EPICS_BASE", "CALC"} |->
        CASE name = "ASYN" -> asyn [] name = "CALC" -> calc [] OTHER -> BaseTree]

\* What the repositories can hold: CALC -> ASYN -> EPICS_BASE; ASYN and CALC
\* referencing each other, before or after EPICS_BASE; a RELEASE.local
\* without a RELEASE; a reference to a module the configuration does not hold
Repositories ==
    { Repository(AsynTree, CalcTree),
      Repository(AsynTreeWithCalc, CalcTree),
      Repository(AsynTreeBaseThenCalc, CalcTree),
      Repository(AsynTree, CalcTreeLocalOnly),
      Repository(AsynTree, CalcTreeWithSncseq) }

\* How the git steps of one clone_single_module end: the exit codes of git
\* clone, git checkout and git submodule update
CloneOutcomes ==
    { [clone |-> 1, checkout |-> 0, submodule |-> 0],
      [clone |-> 0, checkout |-> 1, submodule |-> 0],
      [clone |-> 0, checkout |-> 0, submodule |-> 1],
      [clone |-> 0, checkout |-> 0, submodule |-> 0] }

\* A child process the code started and waited for
Event(cmd, name, rc) == [cmd |-> cmd, module |-> name, rc |-> rc]

----------------------------------------------------------------------------
(* clone.py *)

HasFile(configure_dir, name) ==
    \E j \in DOMAIN configure_dir : configure_dir[j].name = name

FileNamed(configure_dir, name) ==
    configure_dir[CHOOSE j \in DOMAIN configure_dir : configure_dir[j].name = name]

\* As ScanLines, every key taken for a dependency
RECURSIVE ScanLinesUnfiltered(_, _, _, _)
ScanLinesUnfiltered(lines, i, name, deps) ==
    IF i > Len(lines) THEN deps
    ELSE ScanLinesUnfiltered(lines, i + 1, name,
                             IF ~lines[i].hash /\ lines[i].eq
                             THEN Append(deps, lines[i].key) ELSE deps)

\* clone_single_module, lines 94-100: the lines of one opened file
RECURSIVE ScanLines(_, _, _, _)
ScanLines(lines, i, name, deps) ==
    IF i > Len(lines) THEN deps
    ELSE LET line == lines[i]
             found == /\ ~line.hash
                      /\ line.eq
                      /\ line.key \notin Range(NON_DEP_RELEASES)
                      /\ line.key # name
                      /\ name # "EPICS_BASE"
         IN  ScanLines(lines, i + 1, name,
                       IF found THEN Append(deps, line.key) ELSE deps)

\* clone_single_module, lines 90-93: for every file whose name starts with
\* RELEASE, the file named RELEASE of that directory is opened
RECURSIVE ScanFiles(_, _, _, _)
ScanFiles(configure_dir, j, name, deps) ==
    IF j > Len(configure_dir) THEN [deps |-> deps, raised |-> ""]
    ELSE IF StartsWith(configure_dir[j].name, RELEASE)
         THEN IF HasFile(configure_dir, RELEASE)
              THEN ScanFiles(configure_dir, j + 1, name,
                             ScanLines(FileNamed(configure_dir, RELEASE).lines,
                                       1, name, deps))
              ELSE [deps |-> deps, raised |-> "FileNotFoundError"]
         ELSE ScanFiles(configure_dir, j + 1, name, deps)

\* clone_single_module, lines 88-89: every configure directory
RECURSIVE ScanDirs(_, _, _, _)
ScanDirs(configure_dirs, k, name, deps) ==
    IF k > Len(configure_dirs) THEN [deps |-> deps, raised |-> ""]
    ELSE LET r == ScanFiles(configure_dirs[k], 1, name, deps)
         IN  IF r.raised # "" THEN r
             ELSE ScanDirs(configure_dirs, k + 1, name, r.deps)

\* As AlreadyCloned, the flag not looked at
NeverCloned(module) == FALSE

\* line 43: `if module.cloned`
AlreadyCloned(module) == Truthy(module.cloned)

\* As Failed, no exit code taken for a failure
NeverFailed(ret) == FALSE

\* lines 60, 72, 83: `if ret != 0`
Failed(ret) == ret # 0

\* As StaleRemoved, the directory left where it is
StaleKept(dir) == dir

\* lines 46-48: `elif os.path.exists(module_abs_path)`, shutil.rmtree
StaleRemoved(dir) == NoDir

\* clone_single_module(build_loc, module) on the directory dir at
\* module_abs_path; the repository holds tree and the git commands end as
\* out says.
\* The result: the module, the directory, the return value, the exception
\* that left the call ("" for none) and the child processes started.
clone_single_module(module, dir, tree, out) ==
    LET name == module.name
        Result(m, d, ret, raised, events) ==
            [module |-> m, dir |-> d, ret |-> ret, raised |-> raised,
             events |-> events]
        target == IF dir.exists THEN StaleRemoved(dir) ELSE dir
        \* git clone refuses a destination that exists and is not empty
        rc_clone == IF target.exists THEN 128 ELSE out.clone
        e_clone == Event("git clone", name, rc_clone)
        e_checkout == Event("git checkout", name, out.checkout)
        e_submodule == Event("git submodule update", name, out.submodule)
        scan == ScanDirs(tree, 1, name, module.dependencies)
    IN  IF AlreadyCloned(module)
        THEN Result(module, dir, TRUE, "", <<>>)
        ELSE IF Failed(rc_clone)
        THEN Result(module, target, FALSE, "", <<e_clone>>)
        ELSE IF Failed(out.checkout)
        THEN Result(module, Dir(tree), FALSE, "", <<e_clone, e_checkout>>)
        ELSE IF module.recursive_clone /\ Failed(out.submodule)
        THEN Result(module, Dir(tree), FALSE, "",
                    <<e_clone, e_checkout, e_submodule>>)
        ELSE LET events == IF module.recursive_clone
                           THEN <<e_clone, e_checkout, e_submodule>>
                           ELSE <<e_clone, e_checkout>>
             IN  IF scan.raised # ""
                 THEN Result([module EXCEPT !.dependencies = scan.deps],
                             Dir(tree), FALSE, scan.raised, events)
                 ELSE Result([module EXCEPT !.dependencies = scan.deps,
                                            !.cloned = 1],
                             Dir(tree), TRUE, "", events)

----------------------------------------------------------------------------
(* data_model.py: the version resolver *)

\* `modified_module == entry` for an entry of module.dependencies: the left
\* side is an InstallModule, which defines no __eq__, the right side a str
ModuleEqualsEntry(modified_module, entry) == FALSE

\* As ModuleInDependencies, any dependency taken for the module
AnyDependency(modified_module, dependencies) == dependencies # <<>>

\* `modified_module in module.dependencies` (line 211)
ModuleInDependencies(modified_module, dependencies) ==
    \E i \in DOMAIN dependencies : ModuleEqualsEntry(modified_module, dependencies[i])

\* clear_clone_and_build_state(modified_module), on the modules mods; depth
\* counts the activations. The result: the modules and the exception raised.
RECURSIVE clear_clone_and_build_state(_, _, _)
RECURSIVE ClearDependents(_, _, _, _)
clear_clone_and_build_state(mods, name, depth) ==
    IF depth > MaxDepth
    THEN [mods |-> mods, raised |-> "RecursionError"]
    ELSE ClearDependents(
             [mods EXCEPT ![Index(mods, name)] =
                 [@ EXCEPT !.cloned = 0, !.built = 0, !.installed = 0]],
             name, 1, depth)

\* lines 210-212, from the j-th module of self.modules on
ClearDependents(mods, name, j, depth) ==
    IF j > Len(mods) THEN [mods |-> mods, raised |-> ""]
    ELSE IF ModuleInDependencies(Module(mods, name), mods[j].dependencies)
         THEN LET r == clear_clone_and_build_state(mods, mods[j].name, depth + 1)
              IN  IF r.raised # "" THEN r
                  ELSE ClearDependents(r.mods, name, j + 1, depth)
         ELSE ClearDependents(mods, name, j + 1, depth)

\* An optional value: None, or unbound for a local variable
None == [some |-> FALSE, val |-> <<>>]
Some(v) == [some |-> TRUE, val |-> v]

\* lines 249-261: tag against best_tag, from index i of tag_version_numbers.
\* The result: best_tag and best_tag_version_numbers after the loop.
RECURSIVE CompareTags(_, _, _, _, _)
CompareTags(best_tag, best_tag_version_numbers, tag, tag_version_numbers, i) ==
    LET keep == [best_tag |-> best_tag,
                 best_tag_version_numbers |-> best_tag_version_numbers]
        take == [best_tag |-> tag, best_tag_version_numbers |-> tag_version_numbers]
    IN  IF i > Len(tag_version_numbers) THEN keep
        ELSE IF StartsWith(best_tag, <<"R">>) /\ ~StartsWith(tag, <<"R">>) THEN keep
        ELSE IF ~StartsWith(best_tag, <<"R">>) /\ StartsWith(tag, <<"R">>) THEN take
        ELSE IF i - 1 = Len(best_tag_version_numbers) THEN take
        ELSE IF tag_version_numbers[i] > best_tag_version_numbers[i] THEN take
        ELSE IF tag_version_numbers[i] < best_tag_version_numbers[i] THEN keep
        ELSE CompareTags(best_tag, best_tag_version_numbers, tag,
                         tag_version_numbers, i + 1)

\* lines 239-261: one tag of the remote list against the locals best_tag
\* (None at first) and best_tag_version_numbers (unbound at first)
SelectBest(locals, tag) ==
    IF ~locals.best_tag.some
    THEN [locals EXCEPT !.best_tag = Some(tag)]
    ELSE LET r == CompareTags(locals.best_tag.val,
                              VersionNumbers(locals.best_tag.val),
                              tag, VersionNumbers(tag), 1)
         IN  [best_tag |-> Some(r.best_tag),
              best_tag_version_numbers |-> Some(r.best_tag_version_numbers)]

\* lines 268-277: whether best_tag_version_numbers makes the module update,
\* from index i on
RECURSIVE IsNewer(_, _, _)
IsNewer(best_tag_version_numbers, module_version_numbers, i) ==
    IF i > Len(best_tag_version_numbers) THEN FALSE
    ELSE IF i - 1 = Len(module_version_numbers) THEN TRUE
    ELSE IF best_tag_version_numbers[i] > module_version_numbers[i] THEN TRUE
    ELSE IF best_tag_version_numbers[i] < module_version_numbers[i] THEN FALSE
    ELSE IsNewer(best_tag_version_numbers, module_version_numbers, i + 1)

\* As UpdateLoop, best_tag_version_numbers read off best_tag and the loop
\* left at the first update
RECURSIVE UpdateLoopToFirstUpdate(_, _, _, _, _)
UpdateLoopToFirstUpdate(mods, name, tags, k, locals) ==
    IF k > Len(tags) THEN [mods |-> mods, raised |-> ""]
    ELSE LET selected == SelectBest(locals, tags[k])
             module == Module(mods, name)
         IN  IF IsNewer(VersionNumbers(selected.best_tag.val),
                        VersionNumbers(module.version), 1)
             THEN clear_clone_and_build_state(
                      [mods EXCEPT ![Index(mods, name)].version = selected.best_tag.val],
                      name, 1)
             ELSE UpdateLoopToFirstUpdate(mods, name, tags, k + 1, selected)

\* lines 236-279: the loop over the remote tags, from the k-th on.
\* The result: the modules and the exception raised.
RECURSIVE UpdateLoop(_, _, _, _, _)
UpdateLoop(mods, name, tags, k, locals) ==
    IF k > Len(tags) THEN [mods |-> mods, raised |-> ""]
    ELSE LET selected == SelectBest(locals, tags[k])
             module == Module(mods, name)
         IN  IF ~selected.best_tag_version_numbers.some
             THEN [mods |-> mods, raised |-> "UnboundLocalError"]
             ELSE IF IsNewer(selected.best_tag_version_numbers.val,
                             VersionNumbers(module.version), 1)
             THEN LET updated == [mods EXCEPT ![Index(mods, name)].version =
                                                  selected.best_tag.val]
                      r == clear_clone_and_build_state(updated, name, 1)
                  IN  IF r.raised # "" THEN r
                      ELSE UpdateLoop(r.mods, name, tags, k + 1, selected)
             ELSE UpdateLoop(mods, name, tags, k + 1, selected)

\* As Updatable, the blacklist not consulted
UpdatableWhateverName(module) == module.version \notin {master, main}

\* line 228: whether the module is updated at all
Updatable(module) ==
    /\ module.version \notin {master, main}
    /\ module.name \notin Range(UPDATE_TAGS_BLACKLIST)

\* auto_update_module_tag(module), git ls-remote --tags answering tags.
\* The result: the modules, the exception raised, the child processes.
auto_update_module_tag(mods, name, tags) ==
    IF Updatable(Module(mods, name))
    THEN LET r == UpdateLoop(mods, name, tags, 1,
                             [best_tag |-> None, best_tag_version_numbers |-> None])
         IN  [mods |-> r.mods, raised |-> r.raised,
              events |-> <<Event("git ls-remote", name, 0)>>]
    ELSE [mods |-> mods, raised |-> "", events |-> <<>>]

----------------------------------------------------------------------------
(* The state of the program, as one value the operations transform *)

Now ==
    [modules |-> modules, file |-> file, remote |-> remote, disk |-> disk, stack |-> stack,
     loop |-> loop, call |-> call, log |-> log, builtSaved |-> builtSaved]

Becomes(M) ==
    /\ modules' = M.modules
    /\ file' = M.file
    /\ remote' = M.remote
    /\ disk' = M.disk
    /\ stack' = M.stack
    /\ loop' = M.loop
    /\ call' = M.call
    /\ log' = M.log
    /\ builtSaved' = M.builtSaved

\* A call of the API: done is FALSE until it has ended; ret and raised are
\* its outcome; tags is what git ls-remote answers auto_update_module_tag
Call(op, name) ==
    [op |-> op, module |-> name, done |-> FALSE, ret |-> FALSE, raised |-> "",
     tags |-> <<>>]

Idle == call.done

\* An activation of build_single_module: where it stands (enter: lines 92-99,
\* deps: the loop of lines 101-104, make: lines 106-135) and the index of the
\* dependency in turn
Frame(name) == [module |-> name, pc |-> "enter", i |-> 1]

Top(M) == M.stack[Len(M.stack)]

Front(s) == SubSeq(s, 1, Len(s) - 1)

SetTop(M, frame) == [M EXCEPT !.stack[Len(M.stack)] = frame]

SetModule(M, module) ==
    [M EXCEPT !.modules[Index(M.modules, module.name)] = module]

\* An exception leaves every activation and the call: nothing catches it
Raise(M, exception) ==
    [M EXCEPT !.stack = <<>>,
              !.call.done = TRUE, !.call.ret = FALSE, !.call.raised = exception]

\* InstallConfiguration.save()
save(M) ==
    [M EXCEPT !.file = SaveModules(M.modules),
              !.builtSaved = @ \cup {M.modules[i].name : i \in
                                       {j \in DOMAIN M.modules :
                                            Truthy(M.modules[j].built)}}]

----------------------------------------------------------------------------
(* build.py *)

\* build_all, lines 151-156: the call on the module in turn returned
\* built_successfully; save, note a failure, go on to the next module
BuildAllNext(M, name, built_successfully) ==
    LET saved == save(M)
        failed == IF built_successfully THEN M.loop.failed
                  ELSE Append(M.loop.failed, name)
    IN  IF M.loop.i < Len(M.modules)
        THEN [saved EXCEPT !.loop = [i |-> M.loop.i + 1, failed |-> failed],
                           !.stack = <<Frame(M.modules[M.loop.i + 1].name)>>]
        ELSE [saved EXCEPT !.loop = [i |-> M.loop.i + 1, failed |-> failed],
                           !.call.done = TRUE, !.call.ret = TRUE]

\* The outermost build_single_module returned value to its caller
Returned(M, name, value) ==
    IF M.call.op = "build_all"
    THEN BuildAllNext(M, name, value)
    ELSE [M EXCEPT !.call.done = TRUE, !.call.ret = value]

\* build_single_module, lines 102-104, in the caller M (its activation is
\* the top of M.stack) once the call on its dependency returned deps_built
RECURSIVE AfterDependency(_, _)

\* return value from the activation on top of M.stack
Return(M, value) ==
    LET popped == [M EXCEPT !.stack = Front(M.stack)]
    IN  IF Len(M.stack) = 1
        THEN Returned(popped, Top(M).module, value)
        ELSE AfterDependency(popped, value)

\* As AfterDependency, a failed dependency not ending the call
AfterDependencyIgnored(M, deps_built) ==
    SetTop(M, [Top(M) EXCEPT !.i = @ + 1])

AfterDependency(M, deps_built) ==
    IF deps_built
    THEN SetTop(M, [Top(M) EXCEPT !.i = @ + 1])
    ELSE Return(M, FALSE)

\* As AlreadyBuilt, the flag not looked at
NeverBuilt(module) == FALSE

\* line 92: `if module.built`
AlreadyBuilt(module) == Truthy(module.built)

\* build_single_module, lines 92-99
BuildEnter(M, out) ==
    LET module == Module(M.modules, Top(M).module)
        r == clone_single_module(module, M.disk[module.name],
                                 M.remote[module.name], out)
        cloned == [SetModule(M, r.module) EXCEPT
                      !.disk[module.name] = r.dir, !.log = @ \o r.events]
    IN  IF AlreadyBuilt(module)
        THEN Return(M, TRUE)
        ELSE IF Truthy(module.cloned)
        THEN SetTop(M, [Top(M) EXCEPT !.pc = "deps"])
        ELSE IF r.raised # ""
        THEN Raise(cloned, r.raised)
        ELSE IF ~r.ret
        THEN Return(cloned, FALSE)
        ELSE SetTop(cloned, [Top(M) EXCEPT !.pc = "deps"])

\* As BuildDeps, the last dependency left out
BuildDepsButLast(M) ==
    LET module == Module(M.modules, Top(M).module)
        i == Top(M).i
    IN  IF i >= Len(module.dependencies)
        THEN SetTop(M, [Top(M) EXCEPT !.pc = "make"])
        ELSE IF ~HasKey(M.modules, module.dependencies[i])
        THEN Raise(M, "KeyError")
        ELSE IF Len(M.stack) >= MaxDepth
        THEN Raise(M, "RecursionError")
        ELSE [M EXCEPT !.stack = Append(@, Frame(module.dependencies[i]))]

\* As BuildDeps, a dependency whose activation is under way passed over
BuildDepsGuarded(M) ==
    LET module == Module(M.modules, Top(M).module)
        i == Top(M).i
    IN  IF i > Len(module.dependencies)
        THEN SetTop(M, [Top(M) EXCEPT !.pc = "make"])
        ELSE IF ~HasKey(M.modules, module.dependencies[i])
        THEN Raise(M, "KeyError")
        ELSE IF \E k \in DOMAIN M.stack : M.stack[k].module = module.dependencies[i]
        THEN SetTop(M, [Top(M) EXCEPT !.i = @ + 1])
        ELSE IF Len(M.stack) >= MaxDepth
        THEN Raise(M, "RecursionError")
        ELSE [M EXCEPT !.stack = Append(@, Frame(module.dependencies[i]))]

\* As BuildDeps, the dependencies not built at all
BuildDepsSkipped(M) == SetTop(M, [Top(M) EXCEPT !.pc = "make"])

\* build_single_module, lines 101-102: the next dependency, or past the loop
BuildDeps(M) ==
    LET module == Module(M.modules, Top(M).module)
        i == Top(M).i
    IN  IF i > Len(module.dependencies)
        THEN SetTop(M, [Top(M) EXCEPT !.pc = "make"])
        ELSE IF ~HasKey(M.modules, module.dependencies[i])
        THEN Raise(M, "KeyError")
        ELSE IF Len(M.stack) >= MaxDepth
        THEN Raise(M, "RecursionError")
        ELSE [M EXCEPT !.stack = Append(@, Frame(module.dependencies[i]))]

\* As Regenerate, the earlier files left in place
RegenerateKeeping(configure_dir, mods) ==
    configure_dir
    \o << File(CONFIG_SITE, [k \in DOMAIN ConfigMacros |-> Assign(ConfigMacros[k])]),
          File(RELEASE, [k \in DOMAIN mods |-> Assign(mods[k].name)]) >>

\* build_single_module, lines 110-119, in one configure directory
Regenerate(configure_dir, mods) ==
    SelectSeq(configure_dir,
              LAMBDA f : ~(StartsWith(f.name, CONFIG_SITE) \/ StartsWith(f.name, RELEASE)))
    \o << File(CONFIG_SITE, [k \in DOMAIN ConfigMacros |-> Assign(ConfigMacros[k])]),
          File(RELEASE, [k \in DOMAIN mods |-> Assign(mods[k].name)]) >>

\* As BuildMake, built set whatever the exit code
BuildMakeMarked(M, rc) ==
    LET module == Module(M.modules, Top(M).module)
        ran == [M EXCEPT !.log = Append(@, Event("make", module.name, rc))]
    IN  Return(SetModule(ran, [module EXCEPT !.built = 1]), rc = 0)

\* As BuildMake, a failed build command taking the clone for stale
BuildMakeRecloning(M, rc) ==
    LET module == Module(M.modules, Top(M).module)
        ran == [M EXCEPT !.log = Append(@, Event("make", module.name, rc))]
    IN  IF rc = 0
        THEN Return(SetModule(ran, [module EXCEPT !.built = 1]), TRUE)
        ELSE Return(SetModule(ran, [module EXCEPT !.cloned = 0]), FALSE)

\* build_single_module, lines 106-135; the build command exits with rc
BuildMake(M, rc) ==
    LET module == Module(M.modules, Top(M).module)
        name == module.name
        dir == M.disk[name]
        regenerated ==
            IF name # "EPICS_BASE"
            THEN [dir EXCEPT !.configure =
                     [k \in DOMAIN dir.configure |-> Regenerate(dir.configure[k], M.modules)]]
            ELSE dir
        ran == [M EXCEPT !.disk[name] = regenerated,
                         !.log = Append(@, Event("make", name, rc))]
    IN  IF rc = 0
        THEN Return(SetModule(ran, [module EXCEPT !.built = 1]), TRUE)
        ELSE Return(ran, FALSE)

----------------------------------------------------------------------------
(* The operations *)

Done(op, name, ret, raised) ==
    [Call(op, name) EXCEPT !.done = TRUE, !.ret = ret, !.raised = raised]

NoLoop == [i |-> 0, failed |-> <<>>]

DepsShort ==
    \A i \in DOMAIN modules : Len(modules[i].dependencies) <= MaxDeps

\* InstallConfiguration(config_file_path): a process reads the file
Load ==
    /\ Idle
    /\ Becomes([Now EXCEPT !.modules = LoadModules(file),
                           !.call = Done("load", "", TRUE, ""),
                           !.loop = NoLoop, !.log = <<>>])

\* install_config.save()
Save ==
    /\ Idle
    /\ Becomes(save([Now EXCEPT !.call = Done("save", "", TRUE, ""),
                                !.loop = NoLoop, !.log = <<>>]))

\* clone_single_module(install_config.build_location, install_config.modules[name])
CloneSingleModule(name, out) ==
    /\ Idle
    /\ DepsShort
    /\ LET r == clone_single_module(Module(modules, name), disk[name],
                                     remote[name], out)
       IN  Becomes([SetModule(Now, r.module) EXCEPT
                       !.disk[name] = r.dir,
                       !.call = Done("clone_single_module", name, r.ret, r.raised),
                       !.loop = NoLoop, !.log = r.events])

\* build_single_module(install_config, install_config.modules[name]) is called
BuildSingleModule(name) ==
    /\ Idle
    /\ DepsShort
    /\ Becomes([Now EXCEPT !.call = Call("build_single_module", name),
                           !.stack = <<Frame(name)>>,
                           !.loop = NoLoop, !.log = <<>>])

\* build_all(install_config) is called: lines 149-151, the first module
BuildAll ==
    /\ Idle
    /\ DepsShort
    /\ Becomes([Now EXCEPT !.call = Call("build_all", ""),
                           !.stack = <<Frame(modules[1].name)>>,
                           !.loop = [i |-> 1, failed |-> <<>>], !.log = <<>>])

Running(pc) == ~Idle /\ stack # <<>> /\ Top(Now).pc = pc

BuildEnterStep ==
    /\ Running("enter")
    /\ \E out \in CloneOutcomes : Becomes(BuildEnter(Now, out))

BuildDepsStep ==
    /\ Running("deps")
    /\ Becomes(BuildDeps(Now))

BuildMakeStep ==
    /\ Running("make")
    /\ \E rc \in {0, 1} : Becomes(BuildMake(Now, rc))

\* install_config.auto_update_module_tag(install_config.modules[call.module]),
\* git ls-remote --tags answering call.tags
AutoUpdateModuleTag ==
    /\ call.op = "auto_update_module_tag"
    /\ LET r == auto_update_module_tag(modules, call.module, call.tags)
       IN  Becomes([Now EXCEPT !.modules = r.mods,
                               !.call.done = TRUE, !.call.raised = r.raised,
                               !.log = r.events])

\* install_config.clear_clone_and_build_state(install_config.modules[call.module])
ClearCloneAndBuildState ==
    /\ call.op = "clear_clone_and_build_state"
    /\ LET r == clear_clone_and_build_state(modules, call.module, 1)
       IN  Becomes([Now EXCEPT !.modules = r.mods,
                               !.call.done = TRUE, !.call.raised = r.raised,
                               !.log = <<>>])

Init ==
    /\ file = FreshDocument
    /\ modules = LoadModules(FreshDocument)
    /\ remote \in Repositories
    /\ disk = [i \in Range(Keys(FreshDocument)) |-> NoDir]
    /\ stack = <<>>
    /\ loop = NoLoop
    /\ call = Done("load", "", TRUE, "")
    /\ log = <<>>
    /\ builtSaved = {}

\* The build orchestrator and the persistence of the configuration
Next ==
    \/ Load
    \/ Save
    \/ \E i \in DOMAIN modules : BuildSingleModule(modules[i].name)
    \/ BuildAll
    \/ BuildEnterStep
    \/ BuildDepsStep
    \/ BuildMakeStep

Spec == Init /\ [][Next]_vars

\* The statement in turn of a call under way
Step == BuildEnterStep \/ BuildDepsStep \/ BuildMakeStep

\* Spec, where a call under way goes on: the interpreter runs the statement
\* in turn, and every child process waited for (proc.wait) ends
SpecFair == Spec /\ WF_vars(Step)

\* __main__.build_env, lines 257-259, run again and again: each run is a
\* process that reads the file, calls build_all and saves; a run that an
\* exception ends saves nothing
NextBuildEnv ==
    \/ (call.op = "save" \/ call.raised # "") /\ Load
    \/ call.op = "load" /\ BuildAll
    \/ BuildEnterStep
    \/ BuildDepsStep
    \/ BuildMakeStep
    \/ call.op = "build_all" /\ call.raised = "" /\ Save

SpecBuildEnv == Init /\ [][NextBuildEnv]_vars

\* Every sequence over S of length n at most
RECURSIVE SeqsUpTo(_, _)
SeqsUpTo(S, n) ==
    IF n = 0 THEN {<<>>}
    ELSE LET shorter == SeqsUpTo(S, n - 1)
         IN  shorter \cup {Append(t, x) : t \in shorter, x \in S}

\* The tags a remote can hold, and what git ls-remote --tags can answer
TagPool == {R3_7_1, R3_7_2, R3_7_1_1, T3_8_0, Rtest}
TagLists == SeqsUpTo(TagPool, MaxTags)

\* The versions the document can give ASYN
AsynVersions == {R3_7_1, R3_7_2, T3_8_0, master, main}

\* How far a module has come in this process: 0 untouched, 1 cloned, 2 built
Stages == [{"ASYN", "EPICS_BASE", "CALC"} -> {0, 1, 2}]

\* The document with ASYN at the given version
Document(version) ==
    [i \in DOMAIN FreshDocument |->
        IF FreshDocument[i].name = "ASYN"
        THEN [FreshDocument[i] EXCEPT !.VERSION = version]
        ELSE FreshDocument[i]]

AllSucceed == [clone |-> 0, checkout |-> 0, submodule |-> 0]

\* The configuration loaded from doc once clone_single_module, and for stage
\* 2 build_single_module, have succeeded on the modules as stage tells, the
\* repositories holding CALC -> ASYN -> EPICS_BASE
StagedModules(doc, stage) ==
    LET loaded == LoadModules(doc)
    IN  [i \in DOMAIN loaded |->
            LET r == clone_single_module(loaded[i], NoDir,
                         Repository(AsynTree, CalcTree)[loaded[i].name], AllSucceed)
            IN  CASE stage[loaded[i].name] = 0 -> loaded[i]
                  [] stage[loaded[i].name] = 1 -> r.module
                  [] OTHER -> [r.module EXCEPT !.built = 1]]

StagedDisk(doc, stage) ==
    LET loaded == LoadModules(doc)
    IN  [name \in Range(Keys(doc)) |->
            LET r == clone_single_module(Module(loaded, name), NoDir,
                         Repository(AsynTree, CalcTree)[name], AllSucceed)
            IN  IF stage[name] = 0 THEN NoDir
                ELSE IF stage[name] = 2 /\ name # "EPICS_BASE"
                THEN [r.dir EXCEPT !.configure =
                         [k \in DOMAIN r.dir.configure |->
                             Regenerate(r.dir.configure[k], loaded)]]
                ELSE r.dir]

\* A module is built only after its dependencies (build_single_module)
StageReachable(doc, stage) ==
    LET mods == StagedModules(doc, stage)
    IN  \A i \in DOMAIN mods :
            Truthy(mods[i].built) =>
                \A d \in Range(mods[i].dependencies) : stage[d] = 2

\* A process that has loaded the document, cloned and built some modules,
\* and now calls the version resolver on one module
InitUpdate ==
    /\ remote = Repository(AsynTree, CalcTree)
    /\ \E version \in AsynVersions, stage \in Stages :
          /\ StageReachable(Document(version), stage)
          /\ file = Document(version)
          /\ modules = StagedModules(Document(version), stage)
          /\ disk = StagedDisk(Document(version), stage)
    /\ stack = <<>>
    /\ loop = NoLoop
    /\ \E i \in DOMAIN FreshDocument :
          \/ \E tags \in TagLists :
                call = [Call("auto_update_module_tag", FreshDocument[i].name)
                           EXCEPT !.tags = tags]
          \/ call = Call("clear_clone_and_build_state", FreshDocument[i].name)
    /\ log = <<>>
    /\ builtSaved = {}

\* The version resolver: the call is made, and made again
NextUpdate ==
    \/ AutoUpdateModuleTag
    \/ ClearCloneAndBuildState

SpecUpdate == InitUpdate /\ [][NextUpdate]_vars

\* The trees the clone engine is run on
BaseTreeWithAsyn ==
    << <<File(RELEASE, <<Assign("SUPPORT"), Assign("ASYN")>>)>> >>

\* RELEASE and RELEASE.local side by side, with different keys
AsynTreeWithLocal ==
    << <<File(RELEASE, <<Assign("EPICS_BASE")>>),
         File(RELEASE_local, <<Assign("CALC")>>)>> >>

\* Two directories named configure
AsynTreeTwoDirs ==
    << <<File(RELEASE, <<Assign("EPICS_BASE"), Assign("TEMPLATE_TOP")>>)>>,
       <<File(CONFIG_SITE, <<Other>>), File(RELEASE, <<Assign("EPICS_BASE")>>)>> >>

\* A key assigned twice
CalcTreeRepeated ==
    << <<File(RELEASE, <<Assign("ASYN"), Commented("EPICS_BASE"), Assign("ASYN")>>)>> >>

\* A directory named configure with a RELEASE, then one with a
\* RELEASE.local and no RELEASE
CalcTreeThenLocal ==
    << <<File(RELEASE, <<Assign("ASYN")>>)>>,
       <<File(RELEASE_local, <<Assign("EPICS_BASE")>>)>> >>

CloneRepository(base, asyn, calc) ==
    [Repository(asyn, calc) EXCEPT !["EPICS_BASE"] = base]

CloneRepositories ==
    { CloneRepository(BaseTreeWithAsyn, AsynTree, CalcTree),
      CloneRepository(BaseTree, AsynTreeWithLocal, CalcTreeLocalOnly),
      CloneRepository(BaseTree, AsynTreeTwoDirs, CalcTreeRepeated),
      CloneRepository(BaseTree, AsynTree, CalcTreeThenLocal) }

\* What an earlier build of ASYN left at its path: the files build.py wrote
\* (lines 114-119) and a file the build command made
StaleTree ==
    << Regenerate(<<File(CONFIG, <<Other>>)>>, LoadModules(FreshDocument)) >>

EmptyLocation == [i \in Range(Keys(FreshDocument)) |-> NoDir]

\* A process that has loaded the document, on a build location that is
\* empty or holds the directory of ASYN from an earlier installation
InitClone ==
    /\ file = FreshDocument
    /\ modules = LoadModules(FreshDocument)
    /\ remote \in CloneRepositories
    /\ disk \in {EmptyLocation, [EmptyLocation EXCEPT !["ASYN"] = Dir(StaleTree)]}
    /\ stack = <<>>
    /\ loop = NoLoop
    /\ call = Done("load", "", TRUE, "")
    /\ log = <<>>
    /\ builtSaved = {}

\* clone_and_checkout_config(install_config) is called
CloneAndCheckoutConfig ==
    /\ Idle
    /\ DepsShort
    /\ Becomes([Now EXCEPT !.call = Call("clone_and_checkout_config", ""),
                           !.loop = [i |-> 1, failed |-> <<>>], !.log = <<>>])

\* clone_and_checkout_config, lines 117-122: the module in turn
CloneAndCheckoutStep ==
    /\ ~Idle
    /\ call.op = "clone_and_checkout_config"
    /\ \E out \in CloneOutcomes :
          LET name == modules[loop.i].name
              r == clone_single_module(modules[loop.i], disk[name], remote[name], out)
              cloned == [SetModule(Now, r.module) EXCEPT
                            !.disk[name] = r.dir, !.log = @ \o r.events]
              failed == IF r.ret THEN loop.failed ELSE Append(loop.failed, name)
              saved == [save(cloned) EXCEPT !.loop = [i |-> loop.i + 1, failed |-> failed]]
          IN  Becomes(IF r.raised # "" THEN Raise(cloned, r.raised)
                      ELSE IF loop.i < Len(modules) THEN saved
                      ELSE [saved EXCEPT !.call.done = TRUE, !.call.ret = TRUE])

\* install_config.clear_clone_and_build_state(install_config.modules[name]) is called
CallClear(name) ==
    /\ Idle
    /\ Becomes([Now EXCEPT !.call = Call("clear_clone_and_build_state", name),
                           !.loop = NoLoop, !.log = <<>>])

\* The clone engine and the invalidation
NextClone ==
    \/ \E i \in DOMAIN modules, out \in CloneOutcomes :
          CloneSingleModule(modules[i].name, out)
    \/ CloneAndCheckoutConfig
    \/ CloneAndCheckoutStep
    \/ \E i \in DOMAIN modules : CallClear(modules[i].name)
    \/ ClearCloneAndBuildState

SpecClone == InitClone /\ [][NextClone]_vars

\* The modules once clone_single_module has run on each, every git command
\* succeeding, the repositories holding the trees old
ClonedModules(old) ==
    LET loaded == LoadModules(FreshDocument)
    IN  [i \in DOMAIN loaded |->
            clone_single_module(loaded[i], NoDir, old[loaded[i].name],
                                AllSucceed).module]

ClonedDisk(old) ==
    [name \in Range(Keys(FreshDocument)) |->
        clone_single_module(Module(LoadModules(FreshDocument), name), NoDir,
                            old[name], AllSucceed).dir]

\* data_model.py lines 272-273: the module called name moved to version
Updated(mods, name, version) ==
    clear_clone_and_build_state(
        [mods EXCEPT ![Index(mods, name)].version = version], name, 1).mods

\* A process that has cloned the modules, then moved one to a new version,
\* at which its repository holds another tree
InitReclone ==
    /\ file = FreshDocument
    /\ \E old \in CloneRepositories, new \in CloneRepositories,
          i \in DOMAIN FreshDocument :
          /\ modules = Updated(ClonedModules(old), FreshDocument[i].name, R4_42)
          /\ disk = ClonedDisk(old)
          /\ remote = [old EXCEPT ![FreshDocument[i].name] = new[FreshDocument[i].name]]
          /\ call = Done("auto_update_module_tag", FreshDocument[i].name, FALSE, "")
    /\ stack = <<>>
    /\ loop = NoLoop
    /\ log = <<>>
    /\ builtSaved = {}

SpecReclone == InitReclone /\ [][NextClone]_vars

----------------------------------------------------------------------------
(* What the claims speak of *)

\* The names in module.dependencies of the module called name
Deps(mods, name) ==
    IF HasKey(mods, name) THEN Range(Module(mods, name).dependencies) ELSE {}

RECURSIVE Closure(_, _, _)
Closure(mods, S, n) ==
    IF n = 0 THEN S
    ELSE Closure(mods, S \cup UNION {Deps(mods, x) : x \in S}, n - 1)

\* Every name reachable from name through dependencies
Reach(mods, name) == Closure(mods, Deps(mods, name), Len(mods))

Built(mods, name) == HasKey(mods, name) /\ Truthy(Module(mods, name).built)

\* The child processes a step starts
NewEvents ==
    IF Len(log') >= Len(log) /\ SubSeq(log', 1, Len(log)) = log
    THEN SubSeq(log', Len(log) + 1, Len(log'))
    ELSE log'

RanIn(events, cmd, name) ==
    \E p \in DOMAIN events : events[p].cmd = cmd /\ events[p].module = name

Ran(cmd, name) == RanIn(log, cmd, name)

Succeeded == \A p \in DOMAIN log : log[p].rc = 0

----------------------------------------------------------------------------
(* The build orchestrator *)

DependencyFails ==
    /\ ~Idle
    /\ Len(stack) >= 2
    /\ NewEvents # <<>>
    /\ NewEvents[Len(NewEvents)].rc # 0
    /\ call'.raised = ""

\* C2: when the call on a dependency returns failure, every activation above
\* it ends in the same step: none of their modules has its build command
\* started, no further dependency is entered, the outermost call returns
\* failure (build_all notes its module as failed), and the built flag of
\* every module in the chain stays unset.
FailFast ==
    [][DependencyFails =>
          /\ \A e \in Range(NewEvents) : e.module = Top(Now).module
          /\ \A k \in 1..(Len(stack) - 1) :
                /\ ~Built(modules', stack[k].module)
                /\ ~RanIn(log', "make", stack[k].module)
          /\ IF call.op = "build_all"
             THEN /\ loop'.failed = Append(loop.failed, stack[1].module)
                  /\ \/ call'.done /\ stack' = <<>>
                     \/ stack' = <<Frame(modules[loop.i + 1].name)>>
             ELSE /\ call'.done
                  /\ ~call'.ret
                  /\ stack' = <<>>]_vars

\* C2, its case: a build_single_module call has returned failure because a
\* dependency's command failed.
FailFastWitness ==
    /\ call.op = "build_single_module"
    /\ call.done
    /\ ~call.ret
    /\ call.raised = ""
    /\ log # <<>>
    /\ log[Len(log)].rc # 0
    /\ log[Len(log)].module \in Deps(modules, call.module)
    /\ ~Ran("make", call.module)

\* A build_all run that began with no module cloned or built and in which
\* every command so far succeeded: what is cloned or built was so by this run
FreshRun ==
    /\ call.op = "build_all"
    /\ Succeeded
    /\ \A i \in DOMAIN modules :
          /\ Truthy(modules[i].cloned) => Ran("git clone", modules[i].name)
          /\ Truthy(modules[i].built) => Ran("make", modules[i].name)

\* C3: in such a run the build command of a module starts only after the
\* build command of each of its dependencies, whatever the order of the
\* configuration.
BuildAllOrder ==
    FreshRun =>
        \A p \in DOMAIN log :
            log[p].cmd = "make" =>
                \A d \in Deps(modules, log[p].module) :
                    \E q \in 1..(p - 1) : log[q].cmd = "make" /\ log[q].module = d

\* C3, its case: the run is over, ASYN stands before EPICS_BASE in the
\* configuration and depends on it, and EPICS_BASE was built first.
BuildAllOrderWitness ==
    /\ FreshRun
    /\ call.done
    /\ Index(modules, "ASYN") < Index(modules, "EPICS_BASE")
    /\ "EPICS_BASE" \in Deps(modules, "ASYN")
    /\ \E p, q \in DOMAIN log :
          /\ q < p
          /\ log[q].cmd = "make" /\ log[q].module = "EPICS_BASE"
          /\ log[p].cmd = "make" /\ log[p].module = "ASYN"

----------------------------------------------------------------------------
(* Persistence *)

\* C4: a configuration that is saved and read back has the same module names
\* in the same order and, per module, the same version, the same dependency
\* list, the same truth of cloned, built and installed, and writes the same
\* STATE when saved again.
RoundTrip ==
    [][(Idle /\ file = SaveModules(modules) /\ call'.op = "load") =>
          /\ Keys(modules') = Keys(modules)
          /\ \A i \in DOMAIN modules :
                /\ modules'[i].version = modules[i].version
                /\ modules'[i].dependencies = modules[i].dependencies
                /\ Truthy(modules'[i].cloned) = Truthy(modules[i].cloned)
                /\ Truthy(modules'[i].built) = Truthy(modules[i].built)
                /\ Truthy(modules'[i].installed) = Truthy(modules[i].installed)
                /\ as_dict(modules'[i]).State = file[i].State]_vars

\* C5: once a save has written a module as built, no later step of the
\* load, build_all, save runs starts a clone or a build command of it.
ResumableSkip ==
    [][\A e \in Range(NewEvents) : e.module \notin builtSaved]_vars

----------------------------------------------------------------------------
(* The version resolver *)

\* The module a version resolver call is made on
Called(mods) == Module(mods, call.module)

\* The names of the modules that depend on name, at any distance
Dependents(mods, name) ==
    {mods[i].name : i \in {j \in DOMAIN mods : name \in Reach(mods, mods[j].name)}}

Reset(module) ==
    ~Truthy(module.cloned) /\ ~Truthy(module.built) /\ ~Truthy(module.installed)

\* An auto_update_module_tag step on a module whose version is neither
\* master nor main and whose name is none of SSCAN, CALC, STREAM, the remote
\* holding at least one tag
UpdateStep ==
    /\ call.op = "auto_update_module_tag"
    /\ Called(modules).version \notin {master, main}
    /\ call.module \notin {"SSCAN", "CALC", "STREAM"}
    /\ call.tags # <<>>

\* The best tag over the first k tags, by the comparison of lines 239-261
RECURSIVE BestOf(_, _)
BestOf(tags, k) ==
    IF k = 0 THEN [best_tag |-> None, best_tag_version_numbers |-> None]
    ELSE SelectBest(BestOf(tags, k - 1), tags[k])

BestTag(tags) == BestOf(tags, Len(tags)).best_tag.val

\* Strictly greater at the first differing index, or longer on an equal prefix
Newer(tag, version) == IsNewer(VersionNumbers(tag), VersionNumbers(version), 1)

\* C6: a step that changes the version of the called module, or that is the
\* reset auto_update_module_tag applies on a version change
\* (clear_clone_and_build_state on the module), leaves cloned, built and
\* installed unset on the module and on every module that depends on it, at
\* any distance.
CascadingInvalidation ==
    [][(\/ call.op = "clear_clone_and_build_state"
        \/ Called(modules').version # Called(modules).version) =>
          \A i \in DOMAIN modules :
              modules[i].name \in {call.module} \cup Dependents(modules, call.module)
                  => Reset(modules'[i])]_vars

\* C7: a version resolver step on module A leaves every module that is not A
\* and does not depend on A, at any distance, as it was: version, cloned,
\* built, installed and dependencies.
CascadeFrame ==
    [][\A i \in DOMAIN modules :
          modules[i].name \notin {call.module} \cup Dependents(modules, call.module)
              => modules'[i] = modules[i]]_vars

\* C7, its case: ASYN has been reset (its directory is there, so it had been
\* cloned), and EPICS_BASE, which does not depend on ASYN, still is built.
CascadeFrameWitness ==
    /\ call.op = "clear_clone_and_build_state"
    /\ call.done
    /\ call.module = "ASYN"
    /\ disk["ASYN"] # NoDir
    /\ Reset(Module(modules, "ASYN"))
    /\ "EPICS_BASE" \notin Dependents(modules, "ASYN")
    /\ Built(modules, "EPICS_BASE")

\* C8: auto_update_module_tag on a non-empty remote tag list completes, and
\* leaves module.version at the best tag of the list when that tag is newer
\* than the current version; for the tags R3-7-1, R3-7-2, 3-8-0 and the
\* version R3-7-1 it completes with the version R3-7-2.
TagSelection ==
    [][UpdateStep =>
          /\ call'.raised = ""
          /\ Newer(BestTag(call.tags), Called(modules).version)
                => Called(modules').version = BestTag(call.tags)
          /\ (/\ call.tags = <<R3_7_1, R3_7_2, T3_8_0>>
              /\ Called(modules).version = R3_7_1)
                => Called(modules').version = R3_7_2]_vars

\* C9: after auto_update_module_tag on a non-empty remote tag list the
\* version is the best tag of the whole list if that tag is newer than the
\* original version, and the original version otherwise: never another tag.
UpdateDecision ==
    [][UpdateStep =>
          Called(modules').version =
              IF Newer(BestTag(call.tags), Called(modules).version)
              THEN BestTag(call.tags)
              ELSE Called(modules).version]_vars

\* C10: auto_update_module_tag on a module whose version is master or main,
\* or whose name is one of SSCAN, CALC, STREAM, changes no module (version
\* and flags are as they were), starts no git ls-remote and raises nothing.
UpdateNoOp ==
    [][(/\ call.op = "auto_update_module_tag"
        /\ \/ Called(modules).version \in {master, main}
           \/ call.module \in {"SSCAN", "CALC", "STREAM"}) =>
          /\ modules' = modules
          /\ ~RanIn(log', "git ls-remote", call.module)
          /\ call'.raised = ""]_vars

\* C10, its case: the call on CALC, which is built, has ended, the remote
\* holding tags.
UpdateNoOpWitness ==
    /\ call.op = "auto_update_module_tag"
    /\ call.done
    /\ call.module = "CALC"
    /\ call.tags # <<>>
    /\ Built(modules, "CALC")
    /\ Called(modules).version \notin {master, main}

----------------------------------------------------------------------------
(* The clone engine *)

\* A step that is a whole call clone_single_module(build_loc, modules[name])
CloneCall(name) == Idle /\ call'.op = "clone_single_module" /\ call'.module = name

CmdsOf(events) == [p \in DOMAIN events |-> events[p].cmd]

\* C11: clone_single_module on a module whose cloned flag is set returns
\* success, starts no git command, and leaves the build location, the
\* configuration file and every module (flags, version, dependencies) as
\* they were; every such call of every behaviour, so repeated ones too.
CloneIdempotence ==
    [][\A i \in DOMAIN modules :
          (CloneCall(modules[i].name) /\ Truthy(modules[i].cloned)) =>
              /\ call'.ret
              /\ call'.raised = ""
              /\ log' = <<>>
              /\ disk' = disk
              /\ modules' = modules
              /\ file' = file]_vars

\* C11, its case: a call on a module that a call before had cloned has
\* returned success without a git command.
CloneIdempotenceWitness ==
    /\ call.op = "clone_single_module"
    /\ call.done
    /\ call.ret
    /\ log = <<>>
    /\ Truthy(Called(modules).cloned)
    /\ disk[call.module] # NoDir

\* C12: in clone_single_module a git command that exits non-zero is the last
\* one started, the call returns failure and the cloned flag stays unset;
\* the flag gets set only by a call whose git clone, git checkout and, for a
\* recursive module, git submodule update all exited with 0.
CloneFailure ==
    [][\A i \in DOMAIN modules :
          CloneCall(modules[i].name) =>
              /\ \A p \in DOMAIN log' :
                    log'[p].rc # 0 =>
                        /\ p = Len(log')
                        /\ ~call'.ret
                        /\ ~Truthy(modules'[i].cloned)
              /\ (Truthy(modules'[i].cloned) /\ ~Truthy(modules[i].cloned)) =>
                    /\ \A p \in DOMAIN log' : log'[p].rc = 0
                    /\ CmdsOf(log') =
                          IF modules[i].recursive_clone
                          THEN <<"git clone", "git checkout", "git submodule update">>
                          ELSE <<"git clone", "git checkout">>]_vars

\* C12, its case: the submodule update of the recursive module EPICS_BASE
\* has failed after its clone and checkout succeeded.
CloneFailureWitness ==
    /\ call.op = "clone_single_module"
    /\ call.done
    /\ ~call.ret
    /\ call.module = "EPICS_BASE"
    /\ Len(log) = 3
    /\ log[3].cmd = "git submodule update"
    /\ log[3].rc # 0
    /\ ~Truthy(Called(modules).cloned)

----------------------------------------------------------------------------
(* The build orchestrator, continued *)

\* A step inside a call of build_single_module or build_all
BuildCallStep == ~Idle /\ call.op \in {"build_single_module", "build_all"}

\* C13: in a step of a build call, a build command that exits with 0 sets
\* the built flag of its module, and its build_single_module returns
\* success; one that exits non-zero leaves the flag as it was and returns
\* failure; and the flag of a module changes in no step but the one in which
\* its build command exits with 0.
BuildResult ==
    [][BuildCallStep =>
          \A i \in DOMAIN modules :
              LET name == modules[i].name
                  made(rc) == \E p \in DOMAIN NewEvents :
                                  /\ NewEvents[p].cmd = "make"
                                  /\ NewEvents[p].module = name
                                  /\ IF rc = 0 THEN NewEvents[p].rc = 0
                                     ELSE NewEvents[p].rc # 0
                  outermost == Len(stack) = 1 /\ call.op = "build_single_module"
              IN  /\ made(0) => /\ modules'[i].built = 1
                                /\ outermost => (call'.done /\ call'.ret)
                  /\ made(1) => /\ modules'[i].built = modules[i].built
                                /\ outermost => (call'.done /\ ~call'.ret)
                  /\ modules'[i].built # modules[i].built => made(0)]_vars

\* C13, its case: the build command of the module build_single_module was
\* called on has exited non-zero, its dependencies built before.
BuildResultWitness ==
    /\ call.op = "build_single_module"
    /\ call.done
    /\ ~call.ret
    /\ log # <<>>
    /\ log[Len(log)] = Event("make", call.module, 1)
    /\ ~Built(modules, call.module)
    /\ Deps(modules, call.module) # {}
    /\ \A d \in Deps(modules, call.module) : Built(modules, d)

\* C14: a build_all call ends by returning its list of failures, no
\* exception leaving it, after build_single_module was attempted on every
\* module of the configuration, whatever the commands exit with and whatever
\* names the clones discover.
BuildAllNeverAborts ==
    (call.op = "build_all" /\ call.done) =>
        /\ call.raised = ""
        /\ loop.i = Len(modules) + 1

\* The file tells the flags of every module: its STATE, read bit by bit,
\* is the truth of cloned, built and installed
Reflects(document, mods) ==
    /\ Keys(document) = Keys(mods)
    /\ \A i \in DOMAIN mods :
          /\ (BitAnd(document[i].State, 1) # 0) = Truthy(mods[i].cloned)
          /\ (BitAnd(document[i].State, 2) # 0) = Truthy(mods[i].built)
          /\ (BitAnd(document[i].State, 4) # 0) = Truthy(mods[i].installed)

\* C15: in build_all and in clone_and_checkout_config, once the attempt on
\* the module in turn is over, succeeded or failed, and before the attempt
\* on the next module starts, the file tells the flags of every module as
\* they then are.
PersistenceAfterEveryModule ==
    [][(/\ ~Idle
        /\ call.op \in {"build_all", "clone_and_checkout_config"}
        /\ (loop'.i # loop.i \/ call'.done)) =>
          Reflects(file', modules')]_vars

\* How many times the build command of the module called name was started
Makes(name) ==
    Cardinality({p \in DOMAIN log : log[p].cmd = "make" /\ log[p].module = name})

\* C16: within one build_all run the build command of a module is started
\* at most once, whether it succeeds or fails; and in a run that began with
\* no module cloned or built, whose commands all succeeded and which has
\* returned, it was started exactly once for every module.
ExactlyOnceBuild ==
    call.op = "build_all" =>
        /\ \A i \in DOMAIN modules : Makes(modules[i].name) <= 1
        /\ (FreshRun /\ call.done /\ call.raised = "") =>
              \A i \in DOMAIN modules : Makes(modules[i].name) = 1

\* C17: in every state reached from the configuration with no STATE by
\* building, saving and reading the file again, every module that is built
\* is cloned and every module that is installed is built.
LifecycleInvariant ==
    \A i \in DOMAIN modules :
        /\ Truthy(modules[i].built) => Truthy(modules[i].cloned)
        /\ Truthy(modules[i].installed) => Truthy(modules[i].built)

----------------------------------------------------------------------------
(* The clone engine: dependency discovery *)

\* The keys of the KEY=VALUE lines, full-line comments apart, of every file
\* whose name begins with RELEASE in every configure directory of dir
ReleaseKeys(dir) ==
    {dir.configure[k][j].lines[l].key :
        <<k, j, l>> \in
            {t \in (DOMAIN dir.configure) \X (1..3) \X (1..4) :
                /\ t[2] \in DOMAIN dir.configure[t[1]]
                /\ StartsWith(dir.configure[t[1]][t[2]].name, RELEASE)
                /\ t[3] \in DOMAIN dir.configure[t[1]][t[2]].lines
                /\ ~dir.configure[t[1]][t[2]].lines[t[3]].hash
                /\ dir.configure[t[1]][t[2]].lines[t[3]].eq}}

Sentinels ==
    {"SUPPORT", "UTILS", "TEMPLATE_TOP", "TEMPLATE_CONFIG", "TEMPLATE_RELEASE",
     "TEMPLATE_SITE", "TEMPLATE_CONFIG_SITE"}

\* C18: a clone_single_module call that returns success on a module other
\* than EPICS_BASE whose dependencies were empty leaves in dependencies
\* exactly the keys of the RELEASE* files of the cloned directory, the
\* sentinel names and the module's own name apart.
DependencyDiscovery ==
    [][\A i \in DOMAIN modules :
          (/\ CloneCall(modules[i].name)
           /\ modules[i].name # "EPICS_BASE"
           /\ ~Truthy(modules[i].cloned)
           /\ modules[i].dependencies = <<>>
           /\ call'.ret) =>
              Range(modules'[i].dependencies) =
                  (ReleaseKeys(disk'[modules[i].name]) \ Sentinels) \ {modules[i].name}]_vars

\* C19: whatever clone operations have run, no module's dependencies holds
\* the module's own name or a sentinel name, and the dependencies of
\* EPICS_BASE are empty.
NoSelfOrSentinelEdges ==
    \A i \in DOMAIN modules :
        /\ modules[i].name \notin Range(modules[i].dependencies)
        /\ Range(modules[i].dependencies) \cap Sentinels = {}
        /\ modules[i].name = "EPICS_BASE" => modules[i].dependencies = <<>>

\* C19, its case: ASYN is cloned from a RELEASE that assigns ASYN and
\* SUPPORT, and EPICS_BASE from a RELEASE that assigns ASYN.
NoSelfOrSentinelEdgesWitness ==
    /\ Truthy(Module(modules, "ASYN").cloned)
    /\ {"ASYN", "SUPPORT"} \subseteq ReleaseKeys(disk["ASYN"])
    /\ Module(modules, "ASYN").dependencies # <<>>
    /\ Truthy(Module(modules, "EPICS_BASE").cloned)
    /\ "ASYN" \in ReleaseKeys(disk["EPICS_BASE"])

\* C20: whatever clone, invalidation and re-clone operations have run and
\* whatever the RELEASE files hold, the dependencies of a module hold no
\* name twice.
DependenciesFormSet ==
    \A i \in DOMAIN modules :
        \A p, q \in DOMAIN modules[i].dependencies :
            p # q => modules[i].dependencies[p] # modules[i].dependencies[q]

----------------------------------------------------------------------------
(* The version resolver, continued *)

StartsWithR(tag) == StartsWith(tag, <<"R">>)

\* C21: in the scan of the remote tags of a call, a tag that starts with R
\* replaces a best tag that does not, a tag that does not start with R never
\* replaces a best tag that does, and so the best tag of a list that holds a
\* tag starting with R starts with R.
RPrefixPreference ==
    (call.op = "auto_update_module_tag" /\ call.done) =>
        /\ \A k \in 2..Len(call.tags) :
              LET best == BestOf(call.tags, k - 1).best_tag.val
                  after == BestOf(call.tags, k).best_tag.val
              IN  /\ (StartsWithR(call.tags[k]) /\ ~StartsWithR(best))
                        => after = call.tags[k]
                  /\ (~StartsWithR(call.tags[k]) /\ StartsWithR(best))
                        => after = best
        /\ (\E k \in DOMAIN call.tags : StartsWithR(call.tags[k]))
              => StartsWithR(BestTag(call.tags))

----------------------------------------------------------------------------
(* The build orchestrator: memo, regeneration, recursion *)

\* The step in which an activation of build_single_module on name starts
Entering(name) ==
    /\ ~Idle
    /\ stack # <<>>
    /\ Top(Now).pc = "enter"
    /\ Top(Now).module = name

\* C22: an activation of build_single_module on a module whose built flag is
\* set ends in the step it starts in, returning success: no child process is
\* started, the build location and every module stay as they were, no
\* activation for a dependency is entered.
MemoizedBuild ==
    [][\A i \in DOMAIN modules :
          (Entering(modules[i].name) /\ Truthy(modules[i].built)) =>
              /\ NewEvents = <<>>
              /\ Len(log') = Len(log)
              /\ disk' = disk
              /\ modules' = modules
              /\ call'.raised = ""
              /\ IF Len(stack) > 1
                 THEN stack' = [Front(stack) EXCEPT ![Len(stack) - 1].i = @ + 1]
                 ELSE IF call.op = "build_all"
                 THEN loop'.failed = loop.failed /\ loop'.i = loop.i + 1
                 ELSE call'.done /\ call'.ret /\ stack' = <<>>]_vars

\* C22, its case: build_single_module was called on a module built before
\* and has returned success without a child process.
MemoizedBuildWitness ==
    /\ call.op = "build_single_module"
    /\ call.done
    /\ call.ret
    /\ log = <<>>
    /\ Built(modules, call.module)
    /\ disk[call.module] # NoDir

\* The step starts the build command of the module called name
Making(name) ==
    \E p \in DOMAIN NewEvents :
        NewEvents[p].cmd = "make" /\ NewEvents[p].module = name

FilesStarting(configure_dir, prefix) ==
    SelectSeq(configure_dir, LAMBDA f : StartsWith(f.name, prefix))

\* C23: the step that starts the build command of a module other than
\* EPICS_BASE finds its dependencies built and leaves, in each of its
\* configure directories, one file whose name starts with RELEASE, named
\* RELEASE, with one line per module of the configuration in its order,
\* built or not, and one file whose name starts with CONFIG_SITE, named
\* CONFIG_SITE, with one line per build macro; the other files stay. For
\* EPICS_BASE the step leaves the directory as it was.
RegenerationBeforeBuild ==
    [][\A i \in DOMAIN modules :
          Making(modules[i].name) =>
              LET name == modules[i].name
                  old == disk[name].configure
                  new == disk'[name].configure
              IN  IF name = "EPICS_BASE" THEN disk'[name] = disk[name]
                  ELSE /\ \A d \in Deps(modules, name) : Built(modules, d)
                       /\ DOMAIN new = DOMAIN old
                       /\ \A k \in DOMAIN new :
                             /\ FilesStarting(new[k], RELEASE) =
                                   << File(RELEASE, [j \in DOMAIN modules |->
                                                        Assign(modules[j].name)]) >>
                             /\ FilesStarting(new[k], CONFIG_SITE) =
                                   << File(CONFIG_SITE, [j \in DOMAIN ConfigMacros |->
                                                            Assign(ConfigMacros[j])]) >>
                             /\ SelectSeq(new[k], LAMBDA f :
                                    ~(StartsWith(f.name, RELEASE)
                                      \/ StartsWith(f.name, CONFIG_SITE)))
                                = SelectSeq(old[k], LAMBDA f :
                                    ~(StartsWith(f.name, RELEASE)
                                      \/ StartsWith(f.name, CONFIG_SITE)))]_vars

\* C23, its case: the build command of ASYN was started while CALC is not
\* built, and the RELEASE of ASYN names the three modules.
RegenerationBeforeBuildWitness ==
    /\ log # <<>>
    /\ log[Len(log)].cmd = "make"
    /\ log[Len(log)].module = "ASYN"
    /\ ~Built(modules, "CALC")
    /\ disk["ASYN"].configure # <<>>
    /\ HasFile(disk["ASYN"].configure[1], RELEASE)
    /\ Len(FileNamed(disk["ASYN"].configure[1], RELEASE).lines) = Len(modules)
    /\ \E p \in DOMAIN log : log[p].cmd = "make" /\ log[p].module = "EPICS_BASE"

\* C24: a call of clone_single_module on a module whose cloned flag is
\* unset, with a directory at its path, leaves at the path either nothing
\* (git clone failed) or the tree of the repository and nothing else; a
\* call that returns success leaves the tree of the repository.
StaleCloneRecovery ==
    [][\A i \in DOMAIN modules :
          LET name == modules[i].name
          IN  (CloneCall(name) /\ ~Truthy(modules[i].cloned) /\ disk[name].exists) =>
                  /\ log' # <<>>
                  /\ log'[1].cmd = "git clone"
                  /\ log'[1].rc # 0 => disk'[name] = NoDir
                  /\ log'[1].rc = 0 => disk'[name] = Dir(remote[name])
                  /\ call'.ret => disk'[name] = Dir(remote[name])]_vars

\* C24, its case: the first call of the process has cloned ASYN, in a build
\* location that held nothing of the other modules, and the path of ASYN
\* holds the tree of the repository, which differs from the directory an
\* earlier installation leaves there.
StaleCloneRecoveryWitness ==
    /\ call.op = "clone_single_module"
    /\ call.module = "ASYN"
    /\ call.done
    /\ call.ret
    /\ Truthy(Module(modules, "ASYN").cloned)
    /\ disk["ASYN"] = Dir(remote["ASYN"])
    /\ Dir(StaleTree) # Dir(remote["ASYN"])
    /\ \A i \in DOMAIN modules :
          modules[i].name # "ASYN" => ~Truthy(modules[i].cloned)
    /\ disk["EPICS_BASE"] = NoDir
    /\ disk["CALC"] = NoDir

\* name lies on a cycle of dependencies whose modules are all not built
OnCycle(mods, name) ==
    /\ name \in Reach(mods, name)
    /\ \A x \in Reach(mods, name) \cup {name} :
          name \in Reach(mods, x) => ~Built(mods, x)

\* A call of build_single_module on a module of such a cycle has ended, and
\* no module was cloned in it: the cycle was there when the call began
CycleCallEnded ==
    /\ call.op = "build_single_module"
    /\ call.done
    /\ OnCycle(modules, call.module)
    /\ \A p \in DOMAIN log : log[p].cmd = "make"

SameProcessNoUpdate ==
    call'.op \notin {"load", "clear_clone_and_build_state", "auto_update_module_tag"}

\* C26: in a step of clone_single_module, clone_and_checkout_config,
\* build_single_module, build_all or save, a flag of a module that is true
\* before the step is true after it.
FlagMonotonicity ==
    [][SameProcessNoUpdate =>
          /\ DOMAIN modules' = DOMAIN modules
          /\ \A i \in DOMAIN modules :
                /\ modules'[i].name = modules[i].name
                /\ Truthy(modules[i].cloned) => Truthy(modules'[i].cloned)
                /\ Truthy(modules[i].built) => Truthy(modules'[i].built)
                /\ Truthy(modules[i].installed) => Truthy(modules'[i].installed)]_vars

\* C26, its case: build_all has ended; the build command of ASYN failed
\* after the one of EPICS_BASE succeeded, and ASYN is cloned still,
\* EPICS_BASE built still.
FlagMonotonicityWitness ==
    /\ call.op = "build_all"
    /\ call.done
    /\ \E p \in DOMAIN log :
          log[p].cmd = "make" /\ log[p].module = "ASYN" /\ log[p].rc # 0
    /\ \E p \in DOMAIN log :
          log[p].cmd = "make" /\ log[p].module = "EPICS_BASE" /\ log[p].rc = 0
    /\ Truthy(Module(modules, "ASYN").cloned)
    /\ ~Built(modules, "ASYN")
    /\ Built(modules, "EPICS_BASE")

\* DEPS of the module called name in the configuration file
SavedDeps(name) == Range(file[Index(file, name)].DEPS)

\* C27: a build command started for a module finds built every dependency
\* that the configuration file records for the module (DEPS, written by the
\* save after its clone) and that is a module of the configuration, in the
\* process that cloned it and in a process that read the file afterwards.
RestartKeepsOrder ==
    \A p \in DOMAIN log :
        log[p].cmd = "make" =>
            \A d \in SavedDeps(log[p].module) :
                HasKey(modules, d) => Built(modules, d)

\* No module reaches itself through dependencies
Acyclic(mods) ==
    \A i \in DOMAIN mods : mods[i].name \notin Reach(mods, mods[i].name)

\* Every dependency is a module of the configuration
DepsKnown(mods) ==
    \A i \in DOMAIN mods : \A d \in Deps(mods, mods[i].name) : HasKey(mods, d)

\* A call that has ended with dependencies acyclic and known has returned,
\* build_all after the attempt on the last module
ReturnedIfAcyclic ==
    (call.done /\ call.op \in {"build_single_module", "build_all"}
     /\ Acyclic(modules) /\ DepsKnown(modules)) =>
        /\ call.raised = ""
        /\ call.op = "build_all" => (call.ret /\ loop.i = Len(modules) + 1)

\* C28: a call of build_single_module or build_all ends; with dependencies
\* that are acyclic and name modules of the configuration it ends by
\* returning, build_all after the attempt on the last module; and while
\* the dependencies are acyclic and known, an activation exists for a
\* module once at most, so the recursion is as deep as there are modules.
Termination ==
    /\ ~call.done ~> call.done
    /\ []ReturnedIfAcyclic
    /\ []((Acyclic(modules) /\ DepsKnown(modules)) =>
             /\ Len(stack) <= Len(modules)
             /\ \A j, k \in DOMAIN stack :
                   stack[j].module = stack[k].module => j = k)

\* C29: when build_all has returned, its list of failures holds the modules
\* whose built flag is unset, each once, in the order of the configuration.
FailedListMatches ==
    (call.op = "build_all" /\ call.done /\ call.raised = "") =>
        loop.failed = SelectSeq(Keys(modules), LAMBDA n : ~Built(modules, n))

\* C30: auto_update_module_tag called on a module when the same call, with
\* the same answer of git ls-remote, has just ended leaves the version and
\* the flags of every module as that call left them.
UpdateIdempotence ==
    [][(call.op = "auto_update_module_tag" /\ call.done) =>
          /\ call'.op = "auto_update_module_tag"
          /\ call'.module = call.module
          /\ call'.tags = call.tags
          /\ \A i \in DOMAIN modules :
                /\ modules'[i].version = modules[i].version
                /\ modules'[i].cloned = modules[i].cloned
                /\ modules'[i].built = modules[i].built
                /\ modules'[i].installed = modules[i].installed]_vars

\* C30, its case: the call on ASYN, built at R3-7-1, has ended, the remote
\* holding the newer tags R3-7-1-1 and R3-7-2; the next step is the call
\* made again.
UpdateIdempotenceWitness ==
    /\ call.op = "auto_update_module_tag"
    /\ call.done
    /\ call.module = "ASYN"
    /\ call.tags = <<R3_7_1_1, R3_7_2>>
    /\ file[Index(file, "ASYN")].VERSION = R3_7_1
    /\ Ran("git ls-remote", "ASYN")
    /\ ENABLED AutoUpdateModuleTag

\* C31: a call of auto_update_module_tag that leaves the version of its
\* module as it was leaves the flags and the dependencies of every module as
\* they were, and no exception leaves it.
NoUpdateNoInvalidation ==
    [][(/\ call.op = "auto_update_module_tag"
        /\ call'.done
        /\ Called(modules').version = Called(modules).version) =>
          /\ call'.raised = ""
          /\ \A i \in DOMAIN modules :
                /\ modules'[i].cloned = modules[i].cloned
                /\ modules'[i].built = modules[i].built
                /\ modules'[i].installed = modules[i].installed
                /\ modules'[i].dependencies = modules[i].dependencies]_vars

\* What a scan of tree finds for the module called name, from no edge
FreshEdges(tree, name) == Range(ScanDirs(tree, 1, name, <<>>).deps)

\* C32: a call of clone_single_module that clones a module holds afterwards,
\* as the module's dependencies, the names the scan of the tree checked out
\* finds and no other.
RecloneReplacesEdges ==
    [][\A i \in DOMAIN modules :
          (/\ CloneCall(modules[i].name)
           /\ ~Truthy(modules[i].cloned)
           /\ Truthy(modules'[i].cloned)) =>
              Range(modules'[i].dependencies) =
                  FreshEdges(remote[modules[i].name], modules[i].name)]_vars

\* C33: a call of clone_single_module that does not return True, a git
\* command having failed or the scan having raised, leaves the flags and the
\* dependencies of its module as they were.
FailedCloneChangesNothing ==
    [][\A i \in DOMAIN modules :
          (CloneCall(modules[i].name) /\ ~call'.ret) =>
              /\ modules'[i].cloned = modules[i].cloned
              /\ modules'[i].built = modules[i].built
              /\ modules'[i].installed = modules[i].installed
              /\ modules'[i].dependencies = modules[i].dependencies]_vars

====
